---- MODULE Spec2Model ----
(***************************************************************************)
(* A model of cargo-testdox: the parser of `cargo test` output             *)
(* (src/src/lib.rs) and the command-line entry point (src/src/main.rs).    *)
(*                                                                         *)
(* A Rust string is a sequence of one-character strings; a character that  *)
(* is not ASCII is written by its code point ("U+2714").  Option<T> is a   *)
(* sequence of length at most one: None is << >> and Some(x) is << x >>.   *)
(***************************************************************************)
EXTENDS Integers, Sequences, FiniteSets, TLC

VARIABLES
    pc,          \* the position of the program (or of the function under check)
    stdout,      \* standard output of `cargo test`
    stderr,      \* standard error of `cargo test`
    success,     \* ExitStatus::success() of `cargo test`
    colour,      \* whether the `colored` crate emits escape sequences
    output,      \* Option<Output>: the value get_cargo_test_output returned
    printed,     \* what main wrote to its standard output, one println! each
    eprinted,    \* what main wrote to its standard error
    exitCode,    \* exit code of the process, -1 while it runs
    failures,    \* value returned by parse_test_failures
    results,     \* value returned by parse_test_results
    ident,       \* a test identifier
    line,        \* a line handed to parse_line
    lineRes,     \* value returned by parse_line
    pretty,      \* value returned by prettify
    cargoError   \* value returned by parse_error

vars == <<pc, stdout, stderr, success, colour, output, printed, eprinted,
          exitCode, failures, results, ident, line, lineRes, pretty, cargoError>>

----------------------------------------------------------------------------
(* Bounds of the model                                                     *)

MaxFrags == 4
MaxLines == 4
MaxErrLines == 4
MaxOutLines == 3

----------------------------------------------------------------------------
(* Option                                                                   *)

None == << >>
Some(x) == << x >>
IsSome(o) == Len(o) = 1
Unwrap(o) == o[1]

----------------------------------------------------------------------------
(* str                                                                      *)

Min(S) == CHOOSE i \in S : \A j \in S : i <= j
Max(S) == CHOOSE i \in S : \A j \in S : i >= j

Ascii == <<
      " ", "!", "QUOTE", "#", "$", "%", "&", "'", "(", ")", "*", "+", ",", "-", ".", "/",
      "0", "1", "2", "3", "4", "5", "6", "7", "8", "9", ":", ";", "<", "=", ">", "?",
      "@", "A", "B", "C", "D", "E", "F", "G", "H", "I", "J", "K", "L", "M", "N", "O",
      "P", "Q", "R", "S", "T", "U", "V", "W", "X", "Y", "Z", "[", "BACKSLASH", "]", "^", "_",
      "BACKTICK", "a", "b", "c", "d", "e", "f", "g", "h", "i", "j", "k", "l", "m", "n", "o",
      "p", "q", "r", "s", "t", "u", "v", "w", "x", "y", "z", "{", "|", "}", "~" >>

\* The byte of an ASCII character: String's Ord compares bytes.
Code(c) ==
    CASE c = "\t" -> 9
      [] c = "\n" -> 10
      [] c = "\r" -> 13
      [] OTHER -> 31 + (CHOOSE i \in 1..Len(Ascii) : Ascii[i] = c)

\* a < b for Strings (lexicographic by byte).
StrLess(a, b) ==
    LET n == IF Len(a) < Len(b) THEN Len(a) ELSE Len(b)
        diff == {i \in 1..n : a[i] # b[i]}
    IN  IF diff = {} THEN Len(a) < Len(b)
        ELSE Code(a[Min(diff)]) < Code(b[Min(diff)])

StartsWith(s, p) == Len(p) <= Len(s) /\ SubSeq(s, 1, Len(p)) = p

EndsWith(s, p) == Len(p) <= Len(s) /\ SubSeq(s, Len(s) - Len(p) + 1, Len(s)) = p

\* Positions at which p occurs in s.
Occurrences(s, p) ==
    {i \in 1..(Len(s) - Len(p) + 1) : SubSeq(s, i, i + Len(p) - 1) = p}

\* str::find and str::rfind, 0 for None.
Find(s, p) == IF Occurrences(s, p) = {} THEN 0 ELSE Min(Occurrences(s, p))
RFind(s, p) == IF Occurrences(s, p) = {} THEN 0 ELSE Max(Occurrences(s, p))

Contains(s, p) == Occurrences(s, p) # {}

StripPrefix(s, p) ==
    IF StartsWith(s, p) THEN Some(SubSeq(s, Len(p) + 1, Len(s))) ELSE None

SplitOnce(s, d) ==
    LET i == Find(s, d)
    IN  IF i = 0 THEN None
        ELSE Some(<<SubSeq(s, 1, i - 1), SubSeq(s, i + Len(d), Len(s))>>)

RSplitOnce(s, d) ==
    LET i == RFind(s, d)
    IN  IF i = 0 THEN None
        ELSE Some(<<SubSeq(s, 1, i - 1), SubSeq(s, i + Len(d), Len(s))>>)

\* str::split(d): left to right, matches do not overlap.
RECURSIVE Split(_, _)
Split(s, d) ==
    LET i == Find(s, d)
    IN  IF i = 0 THEN <<s>>
        ELSE <<SubSeq(s, 1, i - 1)>> \o Split(SubSeq(s, i + Len(d), Len(s)), d)

\* [&str]::join(d)
RECURSIVE Join(_, _)
Join(parts, d) ==
    IF Len(parts) = 0 THEN << >>
    ELSE IF Len(parts) = 1 THEN parts[1]
    ELSE parts[1] \o d \o Join(Tail(parts), d)

\* str::replace(a, b) for characters a and b.
Replace(s, a, b) == [i \in 1..Len(s) |-> IF s[i] = a THEN b ELSE s[i]]

\* char::is_whitespace, on the characters of the model.
IsWhitespace(c) == c \in {" ", "\t", "\n", "\r"}

\* str::split_whitespace: the maximal runs of non-whitespace characters.
RECURSIVE SplitWhitespace(_)
SplitWhitespace(s) ==
    LET start == {i \in 1..Len(s) : ~IsWhitespace(s[i])}
    IN  IF start = {} THEN << >>
        ELSE LET b == Min(start)
                 stop == {i \in b..Len(s) : IsWhitespace(s[i])}
                 e == IF stop = {} THEN Len(s) + 1 ELSE Min(stop)
             IN  <<SubSeq(s, b, e - 1)>> \o SplitWhitespace(SubSeq(s, e, Len(s)))

\* str::trim
Trim(s) ==
    LET keep == {i \in 1..Len(s) : ~IsWhitespace(s[i])}
    IN  IF keep = {} THEN << >> ELSE SubSeq(s, Min(keep), Max(keep))

\* str::lines: the text is cut after each "\n"; a line loses its "\n" and
\* then a "\r" before it; nothing follows a final "\n".
RECURSIVE Lines(_)
Lines(text) ==
    IF Len(text) = 0 THEN << >>
    ELSE LET i == Find(text, <<"\n">>)
             raw == IF i = 0 THEN text ELSE SubSeq(text, 1, i - 1)
             ln == IF i # 0 /\ EndsWith(raw, <<"\r">>)
                   THEN SubSeq(raw, 1, Len(raw) - 1) ELSE raw
         IN  IF i = 0 THEN <<ln>>
             ELSE <<ln>> \o Lines(SubSeq(text, i + 1, Len(text)))

\* Concatenation of a sequence of strings.
RECURSIVE Concat(_)
Concat(parts) == IF Len(parts) = 0 THEN << >> ELSE parts[1] \o Concat(Tail(parts))

----------------------------------------------------------------------------
(* The literals of lib.rs                                                   *)

TestPrefix == <<"t", "e", "s", "t", " ">>
ResultPrefix == <<"r", "e", "s", "u", "l", "t">>
DocTestMarker == <<"(", "l", "i", "n", "e", " ">>
StatusSeparator == <<" ", ".", ".", ".", " ">>
PathSeparator == <<":", ":">>
FnSeparator == <<"_", "f", "n", "_">>
ThreadPrefix == <<"t", "h", "r", "e", "a", "d">>
PanickedAt == <<"p", "a", "n", "i", "c", "k", "e", "d", " ", "a", "t">>
ThreadQuotePrefix == <<"t", "h", "r", "e", "a", "d", " ", "'">>
PanicDelimiter == <<"'", " ", "p", "a", "n", "i", "c", "k", "e", "d", " ", "a", "t", " ">>
TokOk == <<"o", "k">>
TokFailed == <<"F", "A", "I", "L", "E", "D">>
TokIgnored == <<"i", "g", "n", "o", "r", "e", "d">>
SegTests == <<"t", "e", "s", "t", "s">>
SegTest == <<"t", "e", "s", "t">>
ErrorWord == <<"e", "r", "r", "o", "r">>
ErrorColon == <<"e", "r", "r", "o", "r", ":">>
WarningColon == <<"w", "a", "r", "n", "i", "n", "g", ":">>
UsageColon == <<"U", "s", "a", "g", "e", ":">>
TipColon == <<"t", "i", "p", ":">>

----------------------------------------------------------------------------
(* prettify, humanize, prettify_module, Status::from_str, parse_line        *)

humanize(input) == Join(SplitWhitespace(Replace(input, "_", " ")), <<" ">>)

\* A variant of prettify that splits on the last `_fn_`.
prettify_LastFn(input) ==
    LET sp == RSplitOnce(input, FnSeparator)
    IN  IF IsSome(sp)
        THEN Unwrap(sp)[1] \o <<" ">> \o humanize(Unwrap(sp)[2])
        ELSE humanize(input)

prettify(input) ==
    LET sp == SplitOnce(input, FnSeparator)
    IN  IF IsSome(sp)
        THEN Unwrap(sp)[1] \o <<" ">> \o humanize(Unwrap(sp)[2])
        ELSE humanize(input)

\* A variant of PopIfTest that pops every trailing `tests`/`test` segment.
RECURSIVE PopIfTest_While(_)
PopIfTest_While(parts) ==
    IF Len(parts) > 0 /\ parts[Len(parts)] \in {SegTests, SegTest}
    THEN PopIfTest_While(SubSeq(parts, 1, Len(parts) - 1))
    ELSE parts

\* Vec::pop_if(|s| s == "tests" || s == "test")
PopIfTest(parts) ==
    IF Len(parts) > 0 /\ parts[Len(parts)] \in {SegTests, SegTest}
    THEN SubSeq(parts, 1, Len(parts) - 1)
    ELSE parts

prettify_module(module) ==
    LET parts == PopIfTest(Split(module, PathSeparator))
    IN  IF Len(parts) = 0 THEN None ELSE Some(Join(parts, PathSeparator))

\* Result<Status>, the Err as None: parse_line only calls .ok() on it.
StatusFromStr(status) ==
    CASE status = TokOk -> Some("Pass")
      [] status = TokFailed -> Some("Fail")
      [] status = TokIgnored -> Some("Ignored")
      [] OTHER -> None

\* The (module, name) pair of parse_line's match on rsplit_once("::").
ModuleAndName(test) ==
    LET rs == RSplitOnce(test, PathSeparator)
    IN  IF IsSome(rs)
        THEN <<prettify_module(Unwrap(rs)[1]), Unwrap(rs)[2]>>
        ELSE <<None, test>>

\* A variant of BuildResult that keeps the name, not the identifier, in `test`.
BuildResult_TestIsName(test, status) ==
    LET mn == ModuleAndName(test)
        st == StatusFromStr(status)
    IN  IF st = None THEN None
        ELSE Some([module |-> mn[1], test |-> mn[2], name |-> prettify(mn[2]),
                   status |-> Unwrap(st), failure |-> None])

\* The TestResult parse_line builds from the identifier and the status token.
BuildResult(test, status) ==
    LET mn == ModuleAndName(test)
        st == StatusFromStr(status)
    IN  IF st = None THEN None
        ELSE Some([module |-> mn[1], test |-> test, name |-> prettify(mn[2]),
                   status |-> Unwrap(st), failure |-> None])

parse_line(l) ==
    LET stripped == StripPrefix(l, TestPrefix)
    IN  IF stripped = None THEN None
        ELSE LET rest == Unwrap(stripped)
             IN  IF StartsWith(rest, ResultPrefix) \/ Contains(rest, DocTestMarker)
                 THEN None
                 ELSE LET sp == SplitOnce(rest, StatusSeparator)
                      IN  IF sp = None THEN None
                          ELSE BuildResult(Unwrap(sp)[1], Unwrap(sp)[2])

----------------------------------------------------------------------------
(* parse_test_failures                                                      *)

\* HashMap<String, FailureInfo> as a function on its set of keys.
EmptyMap == << >>
HashMapInsert(m, k, v) == [x \in (DOMAIN m) \cup {k} |-> IF x = k THEN v ELSE m[x]]
HashMapGet(m, k) == IF k \in DOMAIN m THEN Some(m[k]) ELSE None

\* Iterator::take_while(|l| !l.is_empty())
RECURSIVE TakeWhileNonEmpty(_)
TakeWhileNonEmpty(ls) ==
    IF Len(ls) = 0 \/ Len(ls[1]) = 0 THEN << >>
    ELSE <<ls[1]>> \o TakeWhileNonEmpty(Tail(ls))

\* A variant of BlockMessage that does not stop at an empty line.
BlockMessage_ToEnd(lines, i) == Join(SubSeq(lines, i + 1, Len(lines)), <<"\n">>)

\* The message of the block that starts at line i.
BlockMessage(lines, i) ==
    Join(TakeWhileNonEmpty(SubSeq(lines, i + 1, Len(lines))), <<"\n">>)

\* Whether the loop of parse_test_failures takes a line for a panic line.
IsPanicLine(l) == StartsWith(l, ThreadPrefix) /\ Contains(l, PanickedAt)

\* Option<(test, location)> of a panic line: the two `?` of the loop body.
PanicHeader(l) ==
    LET sp == StripPrefix(l, ThreadQuotePrefix)
    IN  IF sp = None THEN None ELSE SplitOnce(Unwrap(sp), PanicDelimiter)

\* The loop of parse_test_failures from line i on, failures being the map so far.
RECURSIVE ScanFailures(_, _, _)
ScanFailures(lines, i, acc) ==
    IF i > Len(lines) THEN Some(acc)
    ELSE IF IsPanicLine(lines[i])
    THEN LET h == PanicHeader(lines[i])
         IN  IF h = None THEN None
             ELSE ScanFailures(lines, i + 1,
                      HashMapInsert(acc, Unwrap(h)[1],
                          [message |-> BlockMessage(lines, i),
                           location |-> Unwrap(h)[2]]))
    ELSE ScanFailures(lines, i + 1, acc)

parse_test_failures(out) == ScanFailures(Lines(out), 1, EmptyMap)

----------------------------------------------------------------------------
(* parse_test_results                                                       *)

\* A variant of BTreeInsert that keeps the entries in insertion order.
BTreeInsert_Append(map, k, v) ==
    SelectSeq(map, LAMBDA e : e[1] # k) \o <<<<k, v>>>>

\* BTreeMap<String, TestResult> as the sequence of its <<key, value>> entries
\* in key order.
BTreeInsert(map, k, v) ==
    SelectSeq(map, LAMBDA e : StrLess(e[1], k))
        \o <<<<k, v>>>>
        \o SelectSeq(map, LAMBDA e : StrLess(k, e[1]))

IntoValues(map) == [i \in 1..Len(map) |-> map[i][2]]

\* A variant of AttachFailure that does not look at the status.
AttachFailure_Always(result, fails) ==
    [result EXCEPT !.failure = HashMapGet(fails, result.test)]

\* `if result.status == Status::Fail { result.failure = failures.get(..) }`
AttachFailure(result, fails) ==
    IF result.status = "Fail"
    THEN [result EXCEPT !.failure = HashMapGet(fails, result.test)]
    ELSE result

\* The loop of parse_test_results from line i on.
RECURSIVE CollectResults(_, _, _, _)
CollectResults(lines, i, fails, acc) ==
    IF i > Len(lines) THEN acc
    ELSE LET r == parse_line(lines[i])
         IN  IF IsSome(r)
             THEN CollectResults(lines, i + 1, fails,
                      BTreeInsert(acc, Unwrap(r).test, AttachFailure(Unwrap(r), fails)))
             ELSE CollectResults(lines, i + 1, fails, acc)

\* Result<Vec<TestResult>>: Ok(v) is Some(v), Err is None.
parse_test_results(test_output) ==
    LET fails == parse_test_failures(test_output)
    IN  IF fails = None THEN None
        ELSE Some(IntoValues(CollectResults(Lines(test_output), 1, Unwrap(fails), << >>)))

----------------------------------------------------------------------------
(* parse_error                                                              *)

\* A variant of IsDelimiter without the test for `Usage:`.
IsDelimiter_NoUsage(l) == Contains(l, ErrorColon) \/ Contains(l, WarningColon)

IsDelimiter(l) ==
    Contains(l, ErrorColon) \/ Contains(l, WarningColon) \/ Contains(l, UsageColon)

\* other_lines: the lines after line i up to the first delimiter line.
RECURSIVE OtherLines(_, _)
OtherLines(lines, i) ==
    IF i >= Len(lines) \/ IsDelimiter(lines[i + 1]) THEN << >>
    ELSE <<lines[i + 1]>> \o OtherLines(lines, i + 1)

\* The loop over other_lines: the last line with a tip stays.
RECURSIVE LastTip(_, _)
LastTip(ls, tip) ==
    IF Len(ls) = 0 THEN tip
    ELSE LastTip(Tail(ls),
             IF Contains(Trim(ls[1]), TipColon) THEN Some(Trim(ls[1])) ELSE tip)

parse_error(err) ==
    LET lines == Lines(err)
        hits == {i \in 1..Len(lines) : Contains(lines[i], ErrorWord)}
    IN  IF hits = {}
        THEN [message |-> Trim(err), tip |-> None]
        ELSE [message |-> Trim(lines[Min(hits)]),
              tip |-> LastTip(OtherLines(lines, Min(hits)), None)]

----------------------------------------------------------------------------
(* Display                                                                  *)

\* colored::Colorize: the text between the escape sequence of the colour and
\* the reset sequence, or the text alone when colours are off.
Colorize(text, code, on) ==
    IF on THEN <<"ESC", "[">> \o code \o <<"m">> \o text \o <<"ESC", "[", "0", "m">>
    ELSE text

DisplayStatus(status, on) ==
    CASE status = "Pass" -> Colorize(<<"U+2714">>, <<"9", "2">>, on)
      [] status = "Fail" -> Colorize(<<"x">>, <<"9", "1">>, on)
      [] status = "Ignored" -> Colorize(<<"?">>, <<"9", "3">>, on)

DisplayFailureInfo(f) == <<"A", "t", " ">> \o f.location \o <<"\n">> \o f.message

DisplayTestResult(r, on) ==
    IF IsSome(r.module)
    THEN DisplayStatus(r.status, on) \o <<" ">> \o Colorize(Unwrap(r.module), <<"9", "4">>, on)
             \o <<" ", "U+2013", " ">> \o r.name
             \o (IF IsSome(r.failure)
                 THEN <<"\n">> \o DisplayFailureInfo(Unwrap(r.failure))
                 ELSE << >>)
    ELSE DisplayStatus(r.status, on) \o <<" ">> \o r.name

DisplayCargoError(e) ==
    e.message \o <<"\n", "\n">>
        \o (IF IsSome(e.tip) THEN <<" ", " ", " ", " ">> \o Unwrap(e.tip) \o <<"\n">> ELSE << >>)

----------------------------------------------------------------------------
(* Output                                                                   *)

\* A variant of failed that looks at the exit status only.
failed_StatusOnly(o) == ~o.status

failed(o) ==
    ~o.status \/ \E i \in 1..Len(o.results) : o.results[i].status = "Fail"

----------------------------------------------------------------------------
(* Inputs                                                                   *)

\* All texts of at most n chunks of the pool, the chunks joined by "\n".
TextsOf(pool, n) ==
    {Join(f, <<"\n">>) : f \in UNION {[1..k -> pool] : k \in 0..n}}

\* Fragments of test identifiers.
IdFrags ==
    { <<"a">>, <<"_">>, <<"_", "f", "n", "_">>, <<"m", ":", ":">>, <<"t", "e", "s", "t", "s", ":", ":">>, <<"t", "e", "s", "t", ":", ":">>, <<" ">>,
      <<"r", "e", "s", "u", "l", "t">>, <<"(", "l", "i", "n", "e">>, <<" ", ".", ".", ".">>, <<":">> }

Idents == {Concat(f) : f \in UNION {[1..k -> IdFrags] : k \in 0..MaxFrags}}

StatusTokens == {TokOk, TokFailed, TokIgnored, <<"b", "o", "g", "u", "s">>}

\* Chunks of the standard output of `cargo test`.
OutChunks ==
    { <<"t", "e", "s", "t", " ", "b", " ", ".", ".", ".", " ", "o", "k">>,
      <<"t", "e", "s", "t", " ", "b", " ", ".", ".", ".", " ", "F", "A", "I", "L", "E", "D">>,
      <<"t", "e", "s", "t", " ", "a", ":", ":", "c", " ", ".", ".", ".", " ", "F", "A", "I", "L", "E", "D">>,
      <<"t", "h", "r", "e", "a", "d", " ", "'", "b", "'", " ", "p", "a", "n", "i", "c", "k", "e", "d", " ", "a", "t", " ", "L", "1", "\n", "m", "s", "g">>,
      <<"t", "h", "r", "e", "a", "d", " ", "'", "a", ":", ":", "c", "'", " ", "p", "a", "n", "i", "c", "k", "e", "d", " ", "a", "t", " ", "L", "2">>,
      <<"t", "h", "r", "e", "a", "d", " ", "'", "b", "b", "'", " ", "p", "a", "n", "i", "c", "k", "e", "d", " ", "a", "t", " ", "L", "3">>,
      << >>,
      <<"t", "h", "r", "e", "a", "d", " ", "m", "a", "i", "n", " ", "p", "a", "n", "i", "c", "k", "e", "d", " ", "a", "t", " ", "x">>,
      <<"t", "h", "r", "e", "a", "d", " ", "'", "b", " ", "p", "a", "n", "i", "c", "k", "e", "d", " ", "a", "t", " ", "L">> }

Texts == TextsOf(OutChunks, MaxLines)

\* Chunks of the standard error of `cargo test`.
ErrChunks ==
    { <<"e", "r", "r", "o", "r", ":", " ", "b", "a", "d">>,
      <<" ", " ", "t", "i", "p", ":", " ", "d", "o", " ", "x", " ", " ">>,
      <<"t", "i", "p", ":", " ", "o", "t", "h", "e", "r">>,
      <<"U", "s", "a", "g", "e", ":", " ", "c", "a", "r", "g", "o">>,
      <<"w", "a", "r", "n", "i", "n", "g", ":", " ", "w">>,
      <<"a", "n", " ", "e", "r", "r", "o", "r", " ", "o", "c", "c", "u", "r", "r", "e", "d">>,
      << >>,
      <<"n", "o", "t", "e">> }

ErrTexts == TextsOf(ErrChunks, MaxErrLines)

\* What main is run on.
MainOutChunks ==
    { <<"t", "e", "s", "t", " ", "b", " ", ".", ".", ".", " ", "o", "k">>,
      <<"t", "e", "s", "t", " ", "b", " ", ".", ".", ".", " ", "F", "A", "I", "L", "E", "D">>,
      <<"t", "e", "s", "t", " ", "m", ":", ":", "c", " ", ".", ".", ".", " ", "F", "A", "I", "L", "E", "D">>,
      <<"t", "e", "s", "t", " ", "m", ":", ":", "c", " ", ".", ".", ".", " ", "i", "g", "n", "o", "r", "e", "d">>,
      <<"t", "h", "r", "e", "a", "d", " ", "'", "b", "'", " ", "p", "a", "n", "i", "c", "k", "e", "d", " ", "a", "t", " ", "L", "1", "\n", "m", "s", "g">>,
      <<"t", "h", "r", "e", "a", "d", " ", "'", "m", ":", ":", "c", "'", " ", "p", "a", "n", "i", "c", "k", "e", "d", " ", "a", "t", " ", "L", "2", "\n", "m", "s", "g", "\n">>,
      <<"t", "h", "r", "e", "a", "d", " ", "m", "a", "i", "n", " ", "p", "a", "n", "i", "c", "k", "e", "d", " ", "a", "t", " ", "x">> }

MainStdouts == TextsOf(MainOutChunks, MaxOutLines)

MainStderrs ==
    { << >>,
      <<"e", "r", "r", "o", "r", ":", " ", "u", "n", "e", "x", "p", "e", "c", "t", "e", "d", " ", "a", "r", "g", "u", "m", "e", "n", "t", "\n", "\n", " ", " ", "t", "i", "p", ":", " ", "u", "s", "e", " ", "'", "-", "-", " ", "x", "'", "\n", "\n", "U", "s", "a", "g", "e", ":", " ", "c", "a", "r", "g", "o", " ", "t", "e", "s", "t">>,
      <<"w", "a", "r", "n", "i", "n", "g", ":", " ", "u", "n", "u", "s", "e", "d", "\n", "e", "r", "r", "o", "r", ":", " ", "c", "o", "u", "l", "d", " ", "n", "o", "t", " ", "c", "o", "m", "p", "i", "l", "e">> }

----------------------------------------------------------------------------
(* main                                                                     *)

Init ==
    /\ pc = "start"
    /\ colour \in BOOLEAN
    /\ stdout = << >> /\ stderr = << >> /\ success = TRUE
    /\ output = None /\ printed = << >> /\ eprinted = << >> /\ exitCode = -1
    /\ failures = None /\ results = None
    /\ ident = << >> /\ line = << >> /\ lineRes = None /\ pretty = << >>
    /\ cargoError = None

\* What get_cargo_test_output returns on the output of a cargo that ran;
\* None when `expect("parsing test results should succeed")` panics.
BuildOutput(out, err, ok) ==
    LET r == parse_test_results(out)
    IN  IF r = None THEN None
        ELSE Some([results |-> Unwrap(r),
                   error |-> IF ~ok THEN Some(parse_error(err)) ELSE None,
                   status |-> ok])

\* `cargo test` cannot be executed: expect("executing command should succeed").
CargoNotExecuted ==
    /\ pc = "start"
    /\ pc' = "panicked"
    /\ exitCode' = 101
    /\ UNCHANGED <<stdout, stderr, success, colour, output, printed, eprinted,
                   failures, results, ident, line, lineRes, pretty, cargoError>>

GetCargoTestOutput ==
    /\ pc = "start"
    /\ \E out \in MainStdouts, err \in MainStderrs, ok \in BOOLEAN :
          /\ stdout' = out
          /\ stderr' = err
          /\ success' = ok
          /\ output' = BuildOutput(out, err, ok)
          /\ pc' = IF output' = None THEN "panicked" ELSE "print_results"
          /\ exitCode' = IF output' = None THEN 101 ELSE exitCode
    /\ UNCHANGED <<colour, printed, eprinted, failures, results, ident, line,
                   lineRes, pretty, cargoError>>

\* One turn of `for result in &output.results { println!("{result}") }`.
PrintResult ==
    /\ pc = "print_results"
    /\ Len(printed) < Len(Unwrap(output).results)
    /\ printed' = Append(printed,
           DisplayTestResult(Unwrap(output).results[Len(printed) + 1], colour)
               \o <<"\n">>)
    /\ UNCHANGED <<pc, stdout, stderr, success, colour, output, eprinted, exitCode,
                   failures, results, ident, line, lineRes, pretty, cargoError>>

\* `if let Some(error) = &output.error { .. }`, after the loop.
PrintError ==
    /\ pc = "print_results"
    /\ Len(printed) = Len(Unwrap(output).results)
    /\ IF IsSome(Unwrap(output).error)
       THEN /\ printed' = IF Len(Unwrap(output).results) # 0
                          THEN Append(printed, <<"\n">>) ELSE printed
            /\ eprinted' = Append(eprinted,
                   DisplayCargoError(Unwrap(Unwrap(output).error)) \o <<"\n">>)
       ELSE UNCHANGED <<printed, eprinted>>
    /\ pc' = "check_failed"
    /\ UNCHANGED <<stdout, stderr, success, colour, output, exitCode,
                   failures, results, ident, line, lineRes, pretty, cargoError>>

\* `if output.failed() { std::process::exit(1) }`, or the return from main.
Exit ==
    /\ pc = "check_failed"
    /\ exitCode' = IF failed(Unwrap(output)) THEN 1 ELSE 0
    /\ pc' = "exited"
    /\ UNCHANGED <<stdout, stderr, success, colour, output, printed, eprinted,
                   failures, results, ident, line, lineRes, pretty, cargoError>>

Next == CargoNotExecuted \/ GetCargoTestOutput \/ PrintResult \/ PrintError \/ Exit

Spec == Init /\ [][Next]_vars

----------------------------------------------------------------------------
(* parse_test_results and parse_test_failures on their own                  *)

InitResults ==
    /\ pc = "results_input"
    /\ stdout \in Texts
    /\ stderr = << >> /\ success = TRUE /\ colour = FALSE
    /\ output = None /\ printed = << >> /\ eprinted = << >> /\ exitCode = -1
    /\ failures = None /\ results = None
    /\ ident = << >> /\ line = << >> /\ lineRes = None /\ pretty = << >>
    /\ cargoError = None

ParseTestFailures ==
    /\ pc = "results_input"
    /\ failures' = parse_test_failures(stdout)
    /\ pc' = "failures_parsed"
    /\ UNCHANGED <<stdout, stderr, success, colour, output, printed, eprinted,
                   exitCode, results, ident, line, lineRes, pretty, cargoError>>

ParseTestResults ==
    /\ pc = "results_input"
    /\ results' = parse_test_results(stdout)
    /\ pc' = "results_parsed"
    /\ UNCHANGED <<stdout, stderr, success, colour, output, printed, eprinted,
                   exitCode, failures, ident, line, lineRes, pretty, cargoError>>

NextResults == ParseTestFailures \/ ParseTestResults

SpecResults == InitResults /\ [][NextResults]_vars

----------------------------------------------------------------------------
(* parse_line and prettify on their own                                     *)

InitLine ==
    /\ pc = "line_input"
    /\ ident \in Idents
    /\ stdout = << >> /\ stderr = << >> /\ success = TRUE /\ colour = FALSE
    /\ output = None /\ printed = << >> /\ eprinted = << >> /\ exitCode = -1
    /\ failures = None /\ results = None
    /\ line = << >> /\ lineRes = None /\ pretty = << >>
    /\ cargoError = None

\* parse_line on the result line cargo prints for the identifier.
ParseLine ==
    /\ pc = "line_input"
    /\ \E tok \in StatusTokens :
          line' = TestPrefix \o ident \o StatusSeparator \o tok
    /\ lineRes' = parse_line(line')
    /\ pc' = "line_parsed"
    /\ UNCHANGED <<stdout, stderr, success, colour, output, printed, eprinted,
                   exitCode, failures, results, ident, pretty, cargoError>>

Prettify ==
    /\ pc = "line_input"
    /\ pretty' = prettify(ident)
    /\ pc' = "prettified"
    /\ UNCHANGED <<stdout, stderr, success, colour, output, printed, eprinted,
                   exitCode, failures, results, ident, line, lineRes, cargoError>>

NextLine == ParseLine \/ Prettify

SpecLine == InitLine /\ [][NextLine]_vars

----------------------------------------------------------------------------
(* parse_error on its own                                                   *)

InitError ==
    /\ pc = "error_input"
    /\ stderr \in ErrTexts
    /\ stdout = << >> /\ success = TRUE /\ colour = FALSE
    /\ output = None /\ printed = << >> /\ eprinted = << >> /\ exitCode = -1
    /\ failures = None /\ results = None
    /\ ident = << >> /\ line = << >> /\ lineRes = None /\ pretty = << >>
    /\ cargoError = None

ParseError ==
    /\ pc = "error_input"
    /\ cargoError' = Some(parse_error(stderr))
    /\ pc' = "error_parsed"
    /\ UNCHANGED <<stdout, stderr, success, colour, output, printed, eprinted,
                   exitCode, failures, results, ident, line, lineRes, pretty>>

NextError == ParseError

SpecError == InitError /\ [][NextError]_vars

----------------------------------------------------------------------------
(* Properties of parse_line and prettify (SpecLine)                         *)

\* The state after parse_line ran on `test <ident> ... ok`.
ParsedOkLine ==
    /\ pc = "line_parsed"
    /\ line = TestPrefix \o ident \o StatusSeparator \o TokOk

\* The portion of an identifier after its last `::`, the whole without one.
NamePortion(id) ==
    IF RFind(id, PathSeparator) = 0 THEN id
    ELSE SubSeq(id, RFind(id, PathSeparator) + 2, Len(id))

\* What C3 says parse_line returns for the identifier.
PassOutcomeOf(id) ==
    /\ IsSome(lineRes)
    /\ Unwrap(lineRes).status = "Pass"
    /\ Unwrap(lineRes).test = id
    /\ Unwrap(lineRes).name = prettify(NamePortion(id))

\* C3 as stated: for every non-empty identifier without ` ... `,
\* parse_line("test <id> ... ok") is Some outcome with status Pass, `test` the
\* identifier unmodified and name prettify of the portion after the last `::`.
C3_Original ==
    (ParsedOkLine /\ ident # << >> /\ ~Contains(ident, StatusSeparator))
        => PassOutcomeOf(ident)

\* The result line is taken for a per-test line, and its first ` ... ` is the
\* one written after the identifier.
PlainIdent(id) ==
    /\ id # << >>
    /\ ~Contains(id, StatusSeparator)
    /\ ~EndsWith(id, <<" ", ".", ".", ".">>)
    /\ ~StartsWith(id, ResultPrefix)
    /\ ~Contains(id, DocTestMarker)
    /\ ~EndsWith(id, <<"(", "l", "i", "n", "e">>)

\* C3 as amended: the same for every non-empty identifier that neither
\* contains ` ... ` or `(line `, nor ends with ` ...` or `(line`, nor starts
\* with `result`.
C3_PassOutcome == (ParsedOkLine /\ PlainIdent(ident)) => PassOutcomeOf(ident)

C3_Witness ==
    /\ ParsedOkLine /\ PlainIdent(ident)
    /\ IsSome(Unwrap(lineRes).module)
    /\ Contains(NamePortion(ident), <<"_">>)
    /\ Unwrap(lineRes).name # NamePortion(ident)

\* The module C6 describes for an identifier.
ExpectedModule(id) ==
    IF ~Contains(id, PathSeparator) THEN None
    ELSE LET m == SubSeq(id, 1, RFind(id, PathSeparator) - 1)
             segs == Split(m, PathSeparator)
             last == segs[Len(segs)]
         IN  IF last \in {SegTests, SegTest}
             THEN IF Len(segs) = 1 THEN None
                  ELSE Some(SubSeq(m, 1, Len(m) - Len(last) - 2))
             ELSE Some(m)

\* C6: the module of a result line is the text before the last `::` of the
\* identifier without its last segment when that segment is `tests` or `test`
\* (one segment at most), None when nothing is left, None without a `::`.
C6_ModuleStripsOneTestSegment ==
    (pc = "line_parsed" /\ IsSome(lineRes))
        => Unwrap(lineRes).module = ExpectedModule(Unwrap(lineRes).test)

\* A module whose last two segments are both `tests`/`test`: one is removed.
C6_Witness ==
    /\ pc = "line_parsed" /\ IsSome(lineRes)
    /\ IsSome(Unwrap(lineRes).module)
    /\ LET segs == Split(Unwrap(Unwrap(lineRes).module), PathSeparator)
       IN  /\ segs[Len(segs)] \in {SegTests, SegTest}
           /\ Unwrap(lineRes).test =
                  Unwrap(Unwrap(lineRes).module) \o <<":", ":", "t", "e", "s", "t", "s", ":", ":", "a">>

\* spacify, pass by pass: every underscore becomes a space, a whitespace
\* character that follows one is dropped and the others become spaces, the
\* spaces at both ends are dropped.
Collapse(s) ==
    LET keep == {i \in 1..Len(s) : ~(IsWhitespace(s[i]) /\ i > 1 /\ IsWhitespace(s[i - 1]))}
        nth(k) == CHOOSE i \in keep : Cardinality({j \in keep : j <= i}) = k
    IN  [k \in 1..Cardinality(keep) |->
            IF IsWhitespace(s[nth(k)]) THEN " " ELSE s[nth(k)]]

Spacify(s) == Trim(Collapse(Replace(s, "_", " ")))

\* C9: with a `_fn_`, prettify is the text before the first `_fn_` unchanged,
\* a space, and the rest spacified; without, the identifier spacified, which
\* has no underscore, no two adjacent spaces and no space at either end, and
\* is empty for the empty identifier.
C9_Prettify ==
    pc = "prettified" =>
        IF Contains(ident, FnSeparator)
        THEN pretty = SubSeq(ident, 1, Find(ident, FnSeparator) - 1) \o <<" ">>
                          \o Spacify(SubSeq(ident, Find(ident, FnSeparator) + 4, Len(ident)))
        ELSE /\ pretty = Spacify(ident)
             /\ ~Contains(pretty, <<"_">>)
             /\ ~Contains(pretty, <<" ", " ">>)
             /\ ~StartsWith(pretty, <<" ">>)
             /\ ~EndsWith(pretty, <<" ">>)
             /\ (ident = << >> => pretty = << >>)

\* Two `_fn_`, and an underscore in the text before the first.
C9_Witness ==
    /\ pc = "prettified"
    /\ Find(ident, FnSeparator) # RFind(ident, FnSeparator)
    /\ Contains(SubSeq(ident, 1, Find(ident, FnSeparator) - 1), <<"_">>)
    /\ Contains(pretty, <<"_">>)

----------------------------------------------------------------------------
(* Properties of parse_test_failures and parse_test_results (SpecResults)   *)

\* The lines of the text that parse_line takes for result lines.
ResultLines(ls) == {j \in 1..Len(ls) : IsSome(parse_line(ls[j]))}

IdOfLine(l) == Unwrap(parse_line(l)).test

\* The last result line for an identifier.
LastLineOf(ls, id) == Max({j \in ResultLines(ls) : IdOfLine(ls[j]) = id})

\* Where the first `' panicked at ` after the opening `thread '` starts.
DelimiterAt(l) ==
    {p \in Occurrences(l, PanicDelimiter) : p > Len(ThreadQuotePrefix)}

\* A line `thread '<id>' panicked at <loc>`, its <id> and its <loc>.
WellFormedPanicLine(l) == StartsWith(l, ThreadQuotePrefix) /\ DelimiterAt(l) # {}

PanicIdOf(l) == SubSeq(l, Len(ThreadQuotePrefix) + 1, Min(DelimiterAt(l)) - 1)

PanicLocationOf(l) == SubSeq(l, Min(DelimiterAt(l)) + Len(PanicDelimiter), Len(l))

\* A line that starts with `thread` and contains `panicked at` without the
\* opening quote or without the delimiter.
MalformedPanicLine(l) ==
    StartsWith(l, ThreadPrefix) /\ Contains(l, PanickedAt) /\ ~WellFormedPanicLine(l)

\* The well-formed panic lines that name the identifier.
BlocksOf(ls, id) ==
    {i \in 1..Len(ls) : WellFormedPanicLine(ls[i]) /\ PanicIdOf(ls[i]) = id}

\* The lines after line i up to the first empty line or the end of the text.
MessageAfter(ls, i) ==
    LET empty == {j \in (i + 1)..Len(ls) : ls[j] = << >>}
    IN  Join(SubSeq(ls, i + 1, (IF empty = {} THEN Len(ls) + 1 ELSE Min(empty)) - 1),
             <<"\n">>)

\* C1: a malformed panic line is skipped: parse_test_failures still returns
\* a mapping with every well-formed block of the text, and parse_test_results
\* still returns Ok with an outcome for every result line.
C1_MalformedPanicLineSkipped ==
    LET ls == Lines(stdout)
    IN  (\E i \in 1..Len(ls) : MalformedPanicLine(ls[i])) =>
            /\ pc = "failures_parsed" =>
                   /\ IsSome(failures)
                   /\ \A i \in 1..Len(ls) : WellFormedPanicLine(ls[i]) =>
                          PanicIdOf(ls[i]) \in DOMAIN Unwrap(failures)
            /\ pc = "results_parsed" =>
                   /\ IsSome(results)
                   /\ \A j \in ResultLines(ls) :
                          \E k \in 1..Len(Unwrap(results)) :
                              Unwrap(results)[k].test = IdOfLine(ls[j])

\* C2: the sequence parse_test_results returns is strictly increasing in
\* `test`, holds the identifiers of the result lines and no other, and keeps
\* for each the outcome of its last result line.
C2_SortedUniqueLastWins ==
    (pc = "results_parsed" /\ IsSome(results)) =>
        LET v == Unwrap(results)
            ls == Lines(stdout)
        IN  /\ \A k \in 1..(Len(v) - 1) : StrLess(v[k].test, v[k + 1].test)
            /\ {v[k].test : k \in 1..Len(v)} = {IdOfLine(ls[j]) : j \in ResultLines(ls)}
            /\ \A k \in 1..Len(v) :
                   LET r == Unwrap(parse_line(ls[LastLineOf(ls, v[k].test)]))
                   IN  /\ v[k].status = r.status
                       /\ v[k].name = r.name
                       /\ v[k].module = r.module

\* Result lines out of order, and an identifier on two lines with two statuses.
C2_Witness ==
    /\ pc = "results_parsed" /\ IsSome(results)
    /\ Len(Unwrap(results)) >= 2
    /\ LET ls == Lines(stdout)
       IN  /\ \E i, j \in ResultLines(ls) :
                  i < j /\ StrLess(IdOfLine(ls[j]), IdOfLine(ls[i]))
           /\ \E i, j \in ResultLines(ls) :
                  /\ i < j /\ IdOfLine(ls[i]) = IdOfLine(ls[j])
                  /\ Unwrap(parse_line(ls[i])).status # Unwrap(parse_line(ls[j])).status

\* C4: in a text whose panic lines are all well-formed, a Fail outcome whose
\* identifier a panic line names carries the location of the last such line
\* and the lines after it up to the first empty line or the end, joined with
\* newlines; a Fail outcome no panic line names carries no detail.
C4_FailureDetail ==
    (/\ pc = "results_parsed"
     /\ \A i \in 1..Len(Lines(stdout)) : ~MalformedPanicLine(Lines(stdout)[i])) =>
        LET v == Unwrap(results)
            ls == Lines(stdout)
        IN  IsSome(results) /\ \A k \in 1..Len(v) : v[k].status = "Fail" =>
                IF BlocksOf(ls, v[k].test) = {} THEN v[k].failure = None
                ELSE LET i == Max(BlocksOf(ls, v[k].test))
                     IN  v[k].failure = Some([message |-> MessageAfter(ls, i),
                                              location |-> PanicLocationOf(ls[i])])

\* A block with a message that an empty line ends, with more lines after it,
\* and a second block for the same identifier before it.
C4_Witness ==
    /\ pc = "results_parsed" /\ IsSome(results)
    /\ LET v == Unwrap(results)
           ls == Lines(stdout)
       IN  \E k \in 1..Len(v) :
               /\ IsSome(v[k].failure)
               /\ Unwrap(v[k].failure).message # << >>
               /\ Cardinality(BlocksOf(ls, v[k].test)) = 2
               /\ \E j \in (Max(BlocksOf(ls, v[k].test)) + 2)..(Len(ls) - 1) :
                      ls[j] = << >>

\* C10: an outcome carries detail only if its status is Fail and a panic line
\* names exactly its identifier; but for the detail, every outcome is what
\* parse_line returns for the last result line of its identifier, whatever
\* panic blocks the text holds.
C10_DetailOnlyOnExactMatch ==
    (pc = "results_parsed" /\ IsSome(results)) =>
        LET v == Unwrap(results)
            ls == Lines(stdout)
        IN  \A k \in 1..Len(v) :
                /\ IsSome(v[k].failure) =>
                       /\ v[k].status = "Fail"
                       /\ BlocksOf(ls, v[k].test) # {}
                /\ \E j \in ResultLines(ls) : IdOfLine(ls[j]) = v[k].test
                /\ [v[k] EXCEPT !.failure = None]
                       = Unwrap(parse_line(ls[LastLineOf(ls, v[k].test)]))

\* A Pass outcome whose identifier a block names and an earlier line failed,
\* beside a block that names no result line.
C10_Witness ==
    /\ pc = "results_parsed" /\ IsSome(results)
    /\ LET v == Unwrap(results)
           ls == Lines(stdout)
       IN  /\ \E k \in 1..Len(v) :
                  /\ v[k].status = "Pass"
                  /\ BlocksOf(ls, v[k].test) # {}
                  /\ \E j \in ResultLines(ls) :
                         /\ IdOfLine(ls[j]) = v[k].test
                         /\ Unwrap(parse_line(ls[j])).status = "Fail"
           /\ \E i \in 1..Len(ls) :
                  /\ WellFormedPanicLine(ls[i])
                  /\ \A k \in 1..Len(v) : v[k].test # PanicIdOf(ls[i])

----------------------------------------------------------------------------
(* Properties of parse_error (SpecError)                                    *)

\* The first line that contains `error`, 0 without one.
FirstErrorLine(ls) ==
    IF \E i \in 1..Len(ls) : Contains(ls[i], ErrorWord)
    THEN Min({i \in 1..Len(ls) : Contains(ls[i], ErrorWord)})
    ELSE 0

\* The first line after line i that contains `Usage:`, `error:` or
\* `warning:`, one past the last line without one.
FirstStopAfter(ls, i) ==
    LET stop == {j \in (i + 1)..Len(ls) :
                    \/ Contains(ls[j], UsageColon)
                    \/ Contains(ls[j], ErrorColon)
                    \/ Contains(ls[j], WarningColon)}
    IN  IF stop = {} THEN Len(ls) + 1 ELSE Min(stop)

\* C5, first half as stated: when a line with `tip:` follows a line with
\* `error:` and no line with `Usage:` comes before it, parse_error returns
\* the trimmed `error:` line as message and the trimmed `tip:` line as tip.
C5_Original ==
    pc = "error_parsed" =>
        LET ls == Lines(stderr)
            e == Unwrap(cargoError)
            pairs == {p \in (1..Len(ls)) \X (1..Len(ls)) :
                         /\ p[1] < p[2]
                         /\ Contains(ls[p[1]], ErrorColon)
                         /\ Contains(ls[p[2]], TipColon)
                         /\ \A j \in 1..(p[2] - 1) : ~Contains(ls[j], UsageColon)}
        IN  pairs # {} =>
                \E p \in pairs : /\ e.message = Trim(ls[p[1]])
                                 /\ e.tip = Some(Trim(ls[p[2]]))

\* The lines with `tip:` between the first line with `error` and the first
\* line after it with `Usage:`, `error:` or `warning:`.
TipsInBlock(ls) ==
    {k \in (FirstErrorLine(ls) + 1)..(FirstStopAfter(ls, FirstErrorLine(ls)) - 1) :
        Contains(ls[k], TipColon)}

\* C5 as amended: the message is the trimmed first line that contains `error`;
\* when a line with `tip:` follows it before any line with `Usage:`, `error:`
\* or `warning:`, the tip is the last such line, trimmed; and neither message
\* nor tip comes from a line at or after the first line with `Usage:`,
\* `error:` or `warning:` that follows the message's line.
C5_MessageAndTip ==
    (pc = "error_parsed" /\ FirstErrorLine(Lines(stderr)) # 0) =>
        LET ls == Lines(stderr)
            e == Unwrap(cargoError)
        IN  /\ e.message = Trim(ls[FirstErrorLine(ls)])
            /\ TipsInBlock(ls) # {} => e.tip = Some(Trim(ls[Max(TipsInBlock(ls))]))
            /\ TipsInBlock(ls) = {} => e.tip = None

\* An `error:` line, a tip with spaces around it, then `Usage:` and a second
\* tip after it.
C5_Witness ==
    /\ pc = "error_parsed"
    /\ LET ls == Lines(stderr)
           e == Unwrap(cargoError)
       IN  /\ FirstErrorLine(ls) # 0
           /\ Contains(ls[FirstErrorLine(ls)], ErrorColon)
           /\ IsSome(e.tip)
           /\ Unwrap(e.tip) # ls[Max(TipsInBlock(ls))]
           /\ FirstStopAfter(ls, FirstErrorLine(ls)) < Len(ls)
           /\ Contains(ls[FirstStopAfter(ls, FirstErrorLine(ls))], UsageColon)
           /\ Contains(ls[Len(ls)], TipColon)

----------------------------------------------------------------------------
(* Properties of main (Spec)                                                *)

\* C7: what main prints for an outcome with failure detail is the one-line
\* summary, then `At <location>` and the message on the next lines, with or
\* without a module; for an outcome without detail it is one line.
C7_FailureDetailRendered ==
    (pc \in {"print_results", "check_failed", "exited"}) =>
        \A i \in 1..Len(Unwrap(output).results) : i <= Len(printed) =>
            LET r == Unwrap(output).results[i]
                text == SubSeq(printed[i], 1, Len(printed[i]) - 1)
            IN  IF IsSome(r.failure)
                THEN LET detail == <<"\n">> \o <<"A", "t", " ">> \o Unwrap(r.failure).location
                                       \o <<"\n">> \o Unwrap(r.failure).message
                     IN  /\ EndsWith(text, detail)
                         /\ ~Contains(SubSeq(text, 1, Len(text) - Len(detail)), <<"\n">>)
                ELSE ~Contains(text, <<"\n">>)

\* Whether the process status is not success or an outcome has status Fail.
ShouldFail ==
    ~success \/ \E i \in 1..Len(Unwrap(output).results) :
                    Unwrap(output).results[i].status = "Fail"

\* C8: failed() is true exactly when the process status is not success or an
\* outcome has status Fail; main exits with 1 exactly then, and with 0
\* otherwise; an Output with an error is a failed one.
C8_FailedAndExitCode ==
    /\ IsSome(output) =>
           /\ Unwrap(output).status = success
           /\ failed(Unwrap(output)) <=> ShouldFail
           /\ IsSome(Unwrap(output).error) => failed(Unwrap(output))
    /\ pc = "exited" =>
           /\ exitCode = 1 <=> ShouldFail
           /\ exitCode = 0 <=> ~ShouldFail

\* cargo succeeded, one outcome failed and another is ignored: exit code 1.
C8_Witness ==
    /\ pc = "exited" /\ success /\ exitCode = 1
    /\ \E i \in 1..Len(Unwrap(output).results) :
           Unwrap(output).results[i].status = "Ignored"

====
